---- MODULE Spec2Model ----
(***************************************************************************)
(* A model of downloader.py (KHInsider album downloader): the retrying      *)
(* fetcher safe_request, the format resolver get_track_download_url, the    *)
(* download engine download_file and the orchestrator download_album with   *)
(* its ThreadPoolExecutor.                                                  *)
(***************************************************************************)
EXTENDS Integers, Sequences, FiniteSets, TLC

\* ------------------------------------------------------------------ bounds
\* largest retry_attempts / retry_count drawn for a call (the loops are
\* modelled for 1..MaxRetry attempts)
MaxRetry == 2
\* largest number of rows with a link on the album page
MaxTracks == 2
\* largest config['max_threads']
MaxThreads == 2
\* largest number of hyperlinks on a track detail page
MaxLinks == 2

\* ------------------------------------------------------- program constants
\* safe_request(url, retry_count=3, retry_delay=5)
DefaultRetryCount == 3
DefaultRetryDelay == 5

None == "None"

\* ------------------------------------------------------------------ state
VARIABLES
    mode,           \* the entry point this behaviour exercises
    config,         \* the configuration dictionary
    album_url,      \* the argument of download_album
    pc,             \* where the main thread is in download_album
    req,            \* the frame of a safe_request call run on its own
    resolver,       \* a get_track_download_url call run on its own
    parser,         \* a get_album_info call run on its own
    album_info,     \* what get_album_info returned
    dirs,           \* the directories download_album has created
    futures,        \* one frame per submitted download_track task
    disk,           \* file path -> size in bytes, for the files that exist
    success_count,  \* the counter of download_album
    collected,      \* how many futures the result loop has consumed
    net,            \* the safe_request calls download_album's own thread has made
    result          \* what download_album returned

vars == <<mode, parser, config, album_url, pc, req, resolver, album_info, dirs,
          futures, disk, success_count, collected, net, result>>

\* -------------------------------------------------------------- safe_request
\* what one urllib2.urlopen(url) can do: return a response, raise URLError
\* (connection refused, DNS, timeout), raise HTTPError (a subclass of
\* URLError: the server answered 4xx/5xx), or raise something that is not a
\* URLError (ValueError for a malformed URL, RemoteDisconnected, ...)
GetOutcomes == {"ok", "URLError", "HTTPError", "OtherError"}

RetryCounts == 1..MaxRetry
RetryDelays == {1, DefaultRetryDelay}

\* the frame of a safe_request call that has not started; log is the
\* sequence of the call's network events (GETs with their outcome, sleeps with
\* their duration), err the exception it raised and errAt the log position
\* of the GET that raised it
NoRequest ==
    [st |-> "idle", site |-> None, retry_count |-> 0, retry_delay |-> 0,
     attempt |-> 0, log |-> <<>>, err |-> None, errAt |-> 0]

\* entry of safe_request(url, retry_count, retry_delay)
safe_request_call(rc, rd) ==
    [NoRequest EXCEPT !.st = "run", !.retry_count = rc, !.retry_delay = rd]

GetEvent(o) == [e |-> "GET", o |-> o, d |-> 0]
SleepEvent(d) == [e |-> "sleep", o |-> None, d |-> d]

\* except urllib.error.URLError: HTTPError is a subclass, so it is caught too
IsURLError(o) == o \in {"URLError", "HTTPError"}

\* safe_request with the sleep taken after the last failed attempt too
safe_request_sleeps_last(s, o) ==
    LET g == [s EXCEPT !.log = Append(@, GetEvent(o))] IN
    IF o = "ok" THEN [g EXCEPT !.st = "return"]
    ELSE IF IsURLError(o) THEN
        IF s.attempt < s.retry_count - 1
        THEN [g EXCEPT !.attempt = @ + 1,
                       !.log = Append(@, SleepEvent(s.retry_delay))]
        ELSE [g EXCEPT !.st = "raise", !.err = o, !.errAt = Len(g.log),
                       !.log = Append(@, SleepEvent(s.retry_delay))]
    ELSE [g EXCEPT !.st = "raise", !.err = o, !.errAt = Len(g.log)]

\* one iteration of `for attempt in range(retry_count)` whose urlopen did o
safe_request(s, o) ==
    LET g == [s EXCEPT !.log = Append(@, GetEvent(o))] IN
    IF o = "ok" THEN [g EXCEPT !.st = "return"]
    ELSE IF IsURLError(o) THEN
        IF s.attempt < s.retry_count - 1
        THEN [g EXCEPT !.attempt = @ + 1,
                       !.log = Append(@, SleepEvent(s.retry_delay))]
        ELSE [g EXCEPT !.st = "raise", !.err = o, !.errAt = Len(g.log)]
    ELSE [g EXCEPT !.st = "raise", !.err = o, !.errAt = Len(g.log)]

\* the number of GETs of a call so far
Gets(s) == Cardinality({i \in DOMAIN s.log : s.log[i].e = "GET"})

\* the call gave up: its last permitted GET failed on the connection
Exhausted(s) ==
    /\ s.st = "raise"
    /\ IsURLError(s.err)
    /\ Gets(s) = s.retry_count

\* every way a whole safe_request call can end, from frame s
RECURSIVE safe_request_runs(_)
safe_request_runs(s) ==
    IF s.st # "run" THEN {s}
    ELSE UNION {safe_request_runs(safe_request(s, o)) : o \in GetOutcomes}

\* the three places that call safe_request, with the arguments they pass
\* line 114: safe_request(url, config['retry_attempts'], config['retry_delay'])
album_page_request(cfg) ==
    [safe_request_call(cfg.retry_attempts, cfg.retry_delay)
        EXCEPT !.site = "get_album_info"]

\* line 180: safe_request(detail_url)
detail_page_request ==
    [safe_request_call(DefaultRetryCount, DefaultRetryDelay)
        EXCEPT !.site = "get_track_download_url"]

\* line 292: safe_request(url)
file_request ==
    [safe_request_call(DefaultRetryCount, DefaultRetryDelay)
        EXCEPT !.site = "download_file"]

\* The calls of lines 180 and 292 pass no argument of their caller's, so
\* the ways they can end are the same for every call.
detail_page_runs == safe_request_runs(detail_page_request)
file_runs == safe_request_runs(file_request)

\* one run for each way the call can end (a response returned, an exception
\* raised): what a caller that only looks at that can tell apart
Ends(runs) == {CHOOSE r \in runs : r.st = st : st \in {r.st : r \in runs}}
detail_page_ends == Ends(detail_page_runs)
file_ends == Ends(file_runs)

\* ---------------------------------------------------- URL normalisation
\* A URL is a sequence of characters; ".mp3" and ".flac" stand for those
\* suffixes as one unit.
HexDigits == {"0", "2", "5"}

\* the character a %XX escape stands for (0x20 space, 0x25 percent, ...)
HexChar(h, l) ==
    CASE h = "2" /\ l = "0" -> " "
      [] h = "2" /\ l = "5" -> "%"
      [] h = "2" /\ l = "2" -> "dquote"
      [] h = "5" /\ l = "0" -> "P"
      [] h = "5" /\ l = "2" -> "R"
      [] h = "5" /\ l = "5" -> "U"
      [] h = "0" /\ l = "0" -> "x00"
      [] h = "0" /\ l = "2" -> "x02"
      [] h = "0" /\ l = "5" -> "x05"

\* urllib.parse.unquote: one left-to-right pass, each %XX replaced once
RECURSIVE unquote(_)
unquote(u) ==
    IF u = <<>> THEN <<>>
    ELSE IF /\ u[1] = "%" /\ Len(u) >= 3
            /\ u[2] \in HexDigits /\ u[3] \in HexDigits
         THEN <<HexChar(u[2], u[3])>> \o unquote(SubSeq(u, 4, Len(u)))
         ELSE <<u[1]>> \o unquote(Tail(u))

\* the escape urllib.parse.quote(_, safe='/:') writes for one character:
\* letters, digits, '.', '/' and ':' stay, everything else becomes %XX
QuoteChar(c) ==
    CASE c = " "      -> <<"%", "2", "0">>
      [] c = "%"      -> <<"%", "2", "5">>
      [] c = "dquote" -> <<"%", "2", "2">>
      [] c = "x00"    -> <<"%", "0", "0">>
      [] c = "x02"    -> <<"%", "0", "2">>
      [] c = "x05"    -> <<"%", "0", "5">>
      [] OTHER        -> <<c>>

RECURSIVE quote(_)
quote(u) == IF u = <<>> THEN <<>> ELSE QuoteChar(u[1]) \o quote(Tail(u))

\* audio_src.replace('.mp3', '.flac')
ReplaceMp3(u) == [i \in DOMAIN u |-> IF u[i] = ".mp3" THEN ".flac" ELSE u[i]]

\* --------------------------------------------------- get_track_download_url
Formats == {"flac", "mp3", "ogg"}

\* format_type.upper()
Upper(f) ==
    CASE f = "flac" -> "FLAC"
      [] f = "mp3"  -> "MP3"
      [] f = "ogg"  -> "OGG"

\* The text of a hyperlink: "FLAC", "MP3", "OGG" and "flac" stand for
\* "Click here to download as FLAC" and so on (the text is not upper-cased
\* by the code, so the last one matches no format).
LinkTexts == {"FLAC", "MP3", "flac"}

\* sizes shown beside a link, in hundredths of a MB; 0: no "(<n> MB)" text,
\* or one float() cannot parse
ShownSizes == {0, 1000}

\* the hyperlinks of a detail page
Links ==
    [text : LinkTexts, href : {<<None>>, <<"a", "%", "2", "5", "2", "0", "a">>},
     size : ShownSizes]

\* f"Click here to download as {format_type.upper()}" in link.text, and the
\* link has an href
LinkMatches(link, f) ==
    /\ link.text = Upper(f)
    /\ link.href # <<None>>

\* the absent result (None) of get_track_download_url
NoTrackInfo == [url |-> <<>>, format |-> None, title |-> None, size |-> 0]

\* the second <b> of the left-aligned paragraph, else the name derived from
\* the URL's last segment
track_title(page) == IF page.title # None THEN page.title ELSE "basename"

\* download_links after the two nested loops: a later matching link
\* overwrites an earlier one of the same format
HasLink(page, f) == \E i \in DOMAIN page.links : LinkMatches(page.links[i], f)

download_links(page, f) ==
    LET i == CHOOSE k \in DOMAIN page.links :
                 /\ LinkMatches(page.links[k], f)
                 /\ \A j \in DOMAIN page.links :
                        LinkMatches(page.links[j], f) => j <= k
    IN [url |-> page.links[i].href, format |-> f,
        title |-> track_title(page), size |-> page.links[i].size]

\* unquote, then quote(safe='/:')
normalize(u) == quote(unquote(u))

\* the return loop run from the end of the preference list
RECURSIVE first_available_last(_, _, _)
first_available_last(page, P, k) ==
    IF k > Len(P) THEN 0
    ELSE IF first_available_last(page, P, k + 1) # 0
    THEN first_available_last(page, P, k + 1)
    ELSE IF HasLink(page, P[k]) THEN k ELSE 0

\* `for format_type in format_preference: if format_type in download_links`:
\* the position in P of the format that is returned, 0 when none is
RECURSIVE first_available(_, _, _)
first_available(page, P, k) ==
    IF k > Len(P) THEN 0
    ELSE IF HasLink(page, P[k]) THEN k
    ELSE first_available(page, P, k + 1)

\* the <audio> tier probing for flac whether or not flac was asked for
audio_fallback_flac_unasked(page, P, probe) ==
    IF page.audio = <<None>> THEN NoTrackInfo
    ELSE LET audio_src == normalize(page.audio) IN
         IF probe = "ok"
         THEN [url |-> ReplaceMp3(audio_src), format |-> "flac",
               title |-> track_title(page), size |-> 0]
         ELSE [url |-> audio_src, format |-> "mp3",
               title |-> track_title(page), size |-> 0]

\* the <audio> tier with a failed probe ending the resolution
audio_fallback_probe_fatal(page, P, probe) ==
    IF page.audio = <<None>> THEN NoTrackInfo
    ELSE LET audio_src == normalize(page.audio) IN
         IF (\E k \in DOMAIN P : P[k] = "flac") /\ probe = "ok"
         THEN [url |-> ReplaceMp3(audio_src), format |-> "flac",
               title |-> track_title(page), size |-> 0]
         ELSE IF (\E k \in DOMAIN P : P[k] = "flac") THEN NoTrackInfo
         ELSE [url |-> audio_src, format |-> "mp3",
               title |-> track_title(page), size |-> 0]

\* the <audio> tier; probe is what urllib2.urlopen(flac_url) did
audio_fallback(page, P, probe) ==
    IF page.audio = <<None>> THEN NoTrackInfo
    ELSE LET audio_src == normalize(page.audio) IN
         IF (\E k \in DOMAIN P : P[k] = "flac") /\ probe = "ok"
         THEN [url |-> ReplaceMp3(audio_src), format |-> "flac",
               title |-> track_title(page), size |-> 0]
         ELSE [url |-> audio_src, format |-> "mp3",
               title |-> track_title(page), size |-> 0]

\* get_track_download_url once the detail page is parsed
resolve_page(page, P, probe) ==
    LET k == first_available(page, P, 1) IN
    IF k # 0
    THEN [download_links(page, P[k]) EXCEPT !.url = normalize(@)]
    ELSE audio_fallback(page, P, probe)

\* get_track_download_url(track_url, format_preference): fetched is the end
\* of safe_request(detail_url); any exception gives None
get_track_download_url(fetched, page, P, probe) ==
    IF fetched.st # "return" THEN NoTrackInfo ELSE resolve_page(page, P, probe)

\* the detail pages: the hyperlinks in document order, the <audio> src and
\* the title element
RECURSIVE SeqsUpTo(_, _)
SeqsUpTo(S, n) ==
    IF n = 0 THEN {<<>>}
    ELSE LET shorter == SeqsUpTo(S, n - 1) IN
         shorter \cup {Append(q, x) : q \in shorter, x \in S}

Pages ==
    [links : SeqsUpTo(Links, MaxLinks), audio : {<<None>>, <<"a", " ", ".mp3">>},
     title : {None, "bold"}]

\* the preference lists: the orderings of one or more formats
Prefs ==
    {P \in SeqsUpTo(Formats, Cardinality(Formats)) :
        /\ P # <<>>
        /\ \A i \in DOMAIN P : \A j \in DOMAIN P : P[i] = P[j] => i = j}

\* ------------------------------------------------------------- download_file
\* 1024 * 1024, the bytes of one MB
MB == 1024 * 1024

\* byte counts a transfer can deliver: 4 MB, 9.95 MB, 10 MB
ByteCounts == {4 * MB, 10433331, 10 * MB}

\* int(response.info().get('Content-Length', 0)): 0 when the header is absent
ContentLengths == {0, 10 * MB}

Exists(d, path) == path \in DOMAIN d

\* the tolerance test with 0.01 MB for 0.1 MB
size_matches_strict(bytes, expected_size) ==
    LET diff == 100 * bytes - expected_size * MB IN
    /\ diff < MB
    /\ -diff < MB

\* abs(os.path.getsize(file_path) / (1024 * 1024) - expected_size) < 0.1,
\* expected_size in hundredths of a MB, both sides multiplied by 100 * MB
size_matches(bytes, expected_size) ==
    LET diff == 100 * bytes - expected_size * MB IN
    /\ diff < 10 * MB
    /\ -diff < 10 * MB

\* `if os.path.exists(file_path) and expected_size:` and the tolerance test
skip_download(d, t) ==
    /\ Exists(d, t.file_path)
    /\ t.expected_size # 0
    /\ size_matches(d[t.file_path], t.expected_size)

\* the file at path gets size n
WriteFile(d, path, n) ==
    [q \in DOMAIN d \cup {path} |-> IF q = path THEN n ELSE d[q]]

Max(a, b) == IF a >= b THEN a ELSE b

NoPath == [number |-> 0, name |-> None, ext |-> None]

\* the frame of one download_track task, with the locals of the
\* download_file call it makes.  gets, sleeps and transfers count the
\* call's GETs, its own sleeps and the files it opened; fails lists how each
\* failed attempt of the call failed and exhausted counts the safe_request
\* calls of the call that gave up after their last attempt; entry_size is
\* the size of the file as the call found it (-1: no file); how tells which
\* return statement ended it.
NoTask ==
    [st |-> "queued", track_number |-> 0, name |-> None,
     track_info |-> NoTrackInfo, file_path |-> NoPath,
     expected_size |-> 0, retry_count |-> 0, retry_delay |-> 0, attempt |-> 0,
     total_size |-> 0, downloaded |-> 0,
     gets |-> 0, sleeps |-> 0, transfers |-> 0, fails |-> <<>>,
     exhausted |-> 0, entry_size |-> -1, how |-> None, ret |-> None]

\* entry of download_file(url, file_path, expected_size, retry_count, retry_delay)
download_file_call(t, path, size, rc, rd) ==
    [t EXCEPT !.st = "check", !.file_path = path, !.expected_size = size,
              !.retry_count = rc, !.retry_delay = rd]

\* the file as the call finds it, noted when the first attempt begins
NoteEntry(t, d) ==
    IF t.attempt = 0 /\ t.gets = 0
    THEN [t EXCEPT !.entry_size = IF Exists(d, t.file_path)
                                  THEN d[t.file_path] ELSE -1]
    ELSE t

\* the handler letting the exception of the last attempt leave the call
download_file_except_reraises(t0) ==
    LET t == [t0 EXCEPT !.fails = Append(@, "except")] IN
    IF t.attempt < t.retry_count - 1
    THEN [t EXCEPT !.st = "check", !.attempt = @ + 1, !.sleeps = @ + 1]
    ELSE [t EXCEPT !.st = "done", !.how = "except", !.ret = "raised"]

\* `except Exception`: sleep and go round again, or return False after the
\* last attempt
download_file_except(t0) ==
    LET t == [t0 EXCEPT !.fails = Append(@, "except")] IN
    IF t.attempt < t.retry_count - 1
    THEN [t EXCEPT !.st = "check", !.attempt = @ + 1, !.sleeps = @ + 1]
    ELSE [t EXCEPT !.st = "done", !.how = "except", !.ret = "False"]

\* top of the loop body: the skip test, then response = safe_request(url)
\* (default retry_count and retry_delay); r is how the safe_request call
\* ended
download_file_begin(t0, d, r) ==
    LET t == NoteEntry(t0, d) IN
    IF skip_download(d, t)
    THEN [t EXCEPT !.st = "done", !.how = "skip", !.ret = "True"]
    ELSE LET g == [t EXCEPT !.gets = @ + Gets(r),
                            !.exhausted = IF Exhausted(r) THEN @ + 1 ELSE @] IN
         IF r.st = "return"
         THEN [g EXCEPT !.st = "open"]
         ELSE download_file_except(g)

\* `with open(file_path, 'wb')`: the file is truncated, or open raises
download_file_open(t, ok) ==
    IF ok THEN [t EXCEPT !.st = "stream", !.transfers = @ + 1]
    ELSE download_file_except(t)

\* the read/write loop delivered n bytes and ended with end ("eof": read
\* returned b'', "raise": read or write raised); then the size test against
\* length, the Content-Length the response came with (total_size is only
\* read here, so the model draws it here)
download_file_stream(t, length, n, end) ==
    LET w == [t EXCEPT !.total_size = length, !.downloaded = n] IN
    IF end = "raise" THEN download_file_except(w)
    ELSE IF 0 < w.total_size /\ w.total_size # w.downloaded
    THEN LET m == [w EXCEPT !.fails = Append(@, "mismatch")] IN
         IF m.attempt < m.retry_count - 1
         THEN [m EXCEPT !.st = "check", !.attempt = @ + 1, !.sleeps = @ + 1]
         ELSE [m EXCEPT !.st = "done", !.how = "mismatch", !.ret = "False"]
    ELSE [w EXCEPT !.st = "done", !.how = "transfer", !.ret = "True"]

\* ------------------------------------------------------------ validate_url
AlbumPath == "//downloads.khinsider.com/game-soundtracks/album/"

\* A URL given to download_album is a sequence of pieces: " " is white
\* space, AlbumPath the album path of the site, the rest other text.
Urls == { <<>>, <<" ", " ">>, <<"https:", "//other.site/album/">>,
          <<"https:", AlbumPath, "minecraft">> }

\* url.strip()
RECURSIVE lstrip(_)
lstrip(u) == IF u # <<>> /\ u[1] = " " THEN lstrip(Tail(u)) ELSE u

RECURSIVE rstrip(_)
rstrip(u) ==
    IF u # <<>> /\ u[Len(u)] = " " THEN rstrip(SubSeq(u, 1, Len(u) - 1)) ELSE u

strip(u) == rstrip(lstrip(u))

\* validate_url without the test for the album path
validate_url_blank_only(url) == strip(url) # <<>>

validate_url(url) ==
    IF strip(url) = <<>> THEN FALSE
    ELSE IF ~(\E i \in DOMAIN url : url[i] = AlbumPath) THEN FALSE
    ELSE TRUE

\* ----------------------------------------------------------- get_album_info
Names == {"a", "b"}

\* a <tr> of the song list: whether it has a td.clickable-row, and the href
\* and text of the first <a> of that cell (href None: no <a>, or no href)
Rows == [clickable : BOOLEAN, href : {None, "/track"}, name : Names]

CatalogPages ==
    [h2 : {None, "OST"}, songlist : BOOLEAN, rows : SeqsUpTo(Rows, MaxTracks)]

\* the album pages download_album is given: track names are interchangeable,
\* so the first row is named "a"
AlbumCatalogs ==
    {p \in CatalogPages :
        p.h2 = "OST" /\ (p.rows # <<>> => p.rows[1].name = "a")}

BASE_URL == "https://downloads.khinsider.com"

\* a row counted for any link it has, clickable cell or not
RowHasTrack_any_link(row) == row.href # None

\* `if cells and len(cells) > 0` and `if link and link.get('href')`
RowHasTrack(row) == row.clickable /\ row.href # None

RECURSIVE TracksOf(_)
TracksOf(rows) ==
    IF rows = <<>> THEN <<>>
    ELSE (IF RowHasTrack(rows[1])
          THEN <<[name |-> rows[1].name, url |-> <<BASE_URL, rows[1].href>>]>>
          ELSE <<>>) \o TracksOf(Tail(rows))

NoAlbum == [title |-> None, found |-> FALSE, tracks |-> <<>>]

\* get_album_info(url, config): fetched is how safe_request(url,
\* config['retry_attempts'], config['retry_delay']) ended
get_album_info(fetched, page) ==
    IF fetched.st # "return" THEN NoAlbum
    ELSE IF ~page.songlist THEN NoAlbum
    ELSE [title |-> IF page.h2 # None THEN page.h2 ELSE "Unknown Album",
          found |-> TRUE, tracks |-> TracksOf(page.rows)]

\* ----------------------------------------------------------- download_track
\* f"{track_number:02d} - {track_filename}" when include_track_number, and
\* os.path.join(output_dir, f"{track_filename}.{format}")
track_path(t, info, cfg) ==
    [number |-> IF cfg.include_track_number THEN t.track_number ELSE 0,
     name |-> t.name, ext |-> info.format]

\* download_track letting a resolution miss escape as an exception
download_track_uncaught(t, info, cfg) ==
    IF info.format = None
    THEN [t EXCEPT !.st = "done", !.how = "unresolved", !.ret = "raised"]
    ELSE download_file_call([t EXCEPT !.track_info = info],
                            track_path(t, info, cfg), info.size,
                            cfg.retry_attempts, cfg.retry_delay)

\* download_track from the return of get_track_download_url to the call of
\* download_file
download_track(t, info, cfg) ==
    IF info.format = None
    THEN [t EXCEPT !.st = "done", !.how = "unresolved", !.ret = "False"]
    ELSE download_file_call([t EXCEPT !.track_info = info],
                            track_path(t, info, cfg), info.size,
                            cfg.retry_attempts, cfg.retry_delay)

\* submit with the index of enumerate passed as it is
submit_zero_based(track, i) ==
    [NoTask EXCEPT !.track_number = i, !.name = track.name]

\* executor.submit(download_track, track, album_info, dir, config, i + 1)
submit(track, i) ==
    [NoTask EXCEPT !.track_number = i + 1, !.name = track.name]

\* ------------------------------------------------------------------ inputs
DefaultPreference == <<"flac", "mp3">>

Configs ==
    [max_threads : 1..MaxThreads, format_preference : {DefaultPreference},
     include_track_number : BOOLEAN, retry_attempts : {MaxRetry},
     retry_delay : {DefaultRetryDelay}]

DEFAULT_CONFIG ==
    [max_threads |-> 3, format_preference |-> DefaultPreference,
     include_track_number |-> TRUE, retry_attempts |-> DefaultRetryCount,
     retry_delay |-> DefaultRetryDelay]

NoDisk == [q \in {} |-> 0]

NoParser ==
    [st |-> "idle", fetched |-> None, page |-> None, ret |-> NoAlbum]

NoResolver ==
    [st |-> "idle", fetched |-> None, page |-> None, probe |-> None,
     ret |-> NoTrackInfo]

\* the detail pages a track of an album is given
AlbumPages ==
    { [links |-> <<>>, audio |-> <<None>>, title |-> None],
      [links |-> <<[text |-> "FLAC", href |-> <<"a", ".flac">>, size |-> 1000]>>,
       audio |-> <<None>>, title |-> None],
      [links |-> <<>>, audio |-> <<"a", ".mp3">>, title |-> None] }

\* Under download_album a task is observed through its Future only: the
\* counters and notes of its frame are not kept, and a finished task leaves
\* its result and the path it wrote, not its locals.
Kept(t) ==
    IF mode # "album" THEN t
    ELSE LET u == [t EXCEPT !.gets = 0, !.sleeps = 0, !.transfers = 0,
                            !.fails = <<>>, !.exhausted = 0,
                            !.entry_size = -1,
                            !.how = None, !.total_size = 0, !.downloaded = 0]
         IN IF u.st # "done" THEN u
            ELSE [u EXCEPT !.track_info = NoTrackInfo, !.expected_size = 0,
                           !.retry_count = 0, !.retry_delay = 0, !.attempt = 0]

\* ---------------------------------------------- the steps of download_file

\* what a transfer can do: the advertised length (http.client never hands
\* out more than a positive Content-Length), the bytes written, how it ended.
\* An album is downloaded from a server that advertises 10 MB and delivers
\* them or stops at 9.95 MB.
Advertised == IF mode = "album" THEN {10 * MB} ELSE ContentLengths
Deliverable == IF mode = "album" THEN {10433331, 10 * MB} ELSE ByteCounts

Transfers ==
    {x \in Advertised \X Deliverable \X {"eof", "raise"} :
        x[1] = 0 \/ x[2] <= x[1]}

\* the frames and disks one step of the call in frame t can lead to
BeginSteps(t, d) ==
    {<<Kept(download_file_begin(t, d, r)), d>> :
        r \in IF mode = "album" THEN file_ends ELSE file_runs}

OpenSteps(t, d) ==
    {<<Kept(download_file_open(t, ok)),
       IF ok THEN WriteFile(d, t.file_path, 0) ELSE d>> : ok \in BOOLEAN}

StreamSteps(t, d) ==
    {<<Kept(download_file_stream(t, x[1], x[2], x[3])),
       WriteFile(d, t.file_path, Max(d[t.file_path], x[2]))>> : x \in Transfers}

FileSteps(x) ==
    CASE x[1].st = "check"  -> BeginSteps(x[1], x[2])
      [] x[1].st = "open"   -> OpenSteps(x[1], x[2])
      [] x[1].st = "stream" -> StreamSteps(x[1], x[2])
      [] OTHER              -> {x}

\* every way a whole download_file call can end: its frame and the disk
RECURSIVE download_file(_)
download_file(S) ==
    IF \A x \in S : x[1].st = "done" THEN S
    ELSE download_file(UNION {FileSteps(x) : x \in S})

\* ------------------------------------------------------------ the actions
Running == {i \in DOMAIN futures : futures[i].st \notin {"queued", "done"}}
Queued == {i \in DOMAIN futures : futures[i].st = "queued"}

\* download_album, lines 401-404
Validate ==
    /\ pc = "validate"
    /\ pc' = IF validate_url(album_url) THEN "fetch" ELSE "done"
    /\ result' = IF validate_url(album_url) THEN result ELSE "False"
    /\ UNCHANGED <<mode, parser, config, album_url, req, resolver, album_info, dirs,
                   futures, disk, success_count, collected, net>>

\* the test of line 409 without its second half
album_usable_if_found(info) == info.found

\* line 409, negated: `if not album_info or not album_info['tracks']`
album_usable(info) == info.found /\ info.tracks # <<>>

\* download_album, lines 407-412
GetAlbumInfo ==
    /\ pc = "fetch"
    /\ \E info \in {get_album_info(fetched, page) :
                      page \in AlbumCatalogs,
                      fetched \in safe_request_runs(album_page_request(config))} :
          /\ album_info' = info
          /\ net' = net + 1
          /\ IF ~album_usable(info)
             THEN pc' = "done" /\ result' = "False"
             ELSE pc' = "mkdir" /\ UNCHANGED result
    /\ UNCHANGED <<mode, parser, config, album_url, req, resolver, dirs, futures, disk,
                   success_count, collected>>

\* download_album, lines 415-421: os.makedirs creates what is missing, or
\* raises OSError, which download_album does not catch
MakeDirs ==
    /\ pc = "mkdir"
    /\ \E made \in {{}, {"root"}, {"root", "album"}} :
          /\ dirs \subseteq made
          /\ dirs' = made
          /\ IF "album" \in made
             THEN pc' = "submit" /\ UNCHANGED result
             ELSE pc' = "done" /\ result' = "raised"
    /\ UNCHANGED <<mode, parser, config, album_url, req, resolver, album_info, futures,
                   disk, success_count, collected, net>>

\* one iteration of `for i, track in enumerate(album_info['tracks'])`
Submit ==
    /\ pc = "submit"
    /\ LET i == Len(futures) IN
       /\ futures' = Append(futures, submit(album_info.tracks[i + 1], i))
       /\ pc' = IF i + 1 = Len(album_info.tracks) THEN "collect" ELSE "submit"
    /\ UNCHANGED <<mode, parser, config, album_url, req, resolver, album_info, dirs,
                   disk, success_count, collected, net, result>>

\* a pool that starts a thread for every task
worker_free_unbounded == TRUE

\* ThreadPoolExecutor(max_workers=config['max_threads']): a thread is free
\* to take a task while fewer than max_workers tasks are being run
worker_free == Cardinality(Running) < config.max_threads

\* a worker thread of the pool takes the oldest queued task
StartTask(i) ==
    /\ i \in Queued
    /\ \A j \in Queued : i <= j
    /\ worker_free
    /\ futures' = [futures EXCEPT ![i].st = "resolve"]
    /\ UNCHANGED <<mode, parser, config, album_url, pc, req, resolver, album_info, dirs,
                   disk, success_count, collected, net, result>>

\* download_track, lines 367-378
ResolveTrack(i) ==
    /\ futures[i].st = "resolve"
    /\ \E info \in {get_track_download_url(fetched, page,
                                           config.format_preference, probe) :
                      fetched \in detail_page_ends,
                      page \in AlbumPages,
                      probe \in GetOutcomes} :
          futures' = [futures EXCEPT ![i] = Kept(download_track(@, info, config))]
    /\ UNCHANGED <<mode, parser, config, album_url, pc, req, resolver, album_info, dirs,
                   disk, success_count, collected, net, result>>

\* download_track, lines 381-392: the whole download_file call
DownloadFile(i) ==
    /\ mode = "album"
    /\ futures[i].st = "check"
    /\ \E x \in download_file({<<futures[i], disk>>}) :
          /\ futures' = [futures EXCEPT ![i] = x[1]]
          /\ disk' = x[2]
    /\ UNCHANGED <<mode, parser, config, album_url, pc, req, resolver, album_info, dirs,
                   success_count, collected, net, result>>

\* a result() that returns what the task has so far, without waiting
result_available_unfinished(f) == TRUE

\* future.result() blocks until the task of the future has finished
result_available(f) == f.st = "done"

\* one iteration of `for future in futures: if future.result()`; result()
\* re-raises what the task raised, and the `with` block then waits for the
\* other tasks before the exception leaves download_album
Collect ==
    /\ pc = "collect"
    /\ collected < Len(futures)
    /\ result_available(futures[collected + 1])
    /\ futures[collected + 1].ret = "raised"
          => \A i \in DOMAIN futures : futures[i].st = "done"
    /\ collected' = collected + 1
    /\ IF futures[collected + 1].ret = "raised"
       THEN pc' = "done" /\ result' = "raised" /\ UNCHANGED success_count
       ELSE /\ success_count' = IF futures[collected + 1].ret = "True"
                                THEN success_count + 1 ELSE success_count
            /\ UNCHANGED <<pc, result>>
    /\ UNCHANGED <<mode, parser, config, album_url, req, resolver, album_info, dirs,
                   futures, disk, net>>

\* an album that counts as downloaded when any track was
download_album_result_any(count, tracks) ==
    IF count > 0 THEN "True" ELSE "False"

\* line 443: return success_count == len(album_info['tracks'])
download_album_result(count, tracks) ==
    IF count = Len(tracks) THEN "True" ELSE "False"

\* the end of the `with` block and line 443
ReturnAlbum ==
    /\ pc = "collect"
    /\ collected = Len(futures)
    /\ \A i \in DOMAIN futures : futures[i].st = "done"
    /\ result' = download_album_result(success_count, album_info.tracks)
    /\ pc' = "done"
    /\ UNCHANGED <<mode, parser, config, album_url, req, resolver, album_info, dirs,
                   futures, disk, success_count, collected, net>>

\* ------------------------------------------------------------ download_album
Init ==
    /\ mode = "album"
    /\ config \in Configs
    /\ album_url \in Urls
    /\ pc = "validate"
    /\ req = NoRequest
    /\ resolver = NoResolver
    /\ parser = NoParser
    /\ album_info = NoAlbum
    /\ disk = NoDisk
    /\ dirs \in {{}, {"root"}}
    /\ futures = <<>>
    /\ success_count = 0
    /\ collected = 0
    /\ net = 0
    /\ result = None

Next ==
    \/ Validate
    \/ GetAlbumInfo
    \/ MakeDirs
    \/ Submit
    \/ \E i \in DOMAIN futures : StartTask(i)
    \/ \E i \in DOMAIN futures : ResolveTrack(i)
    \/ \E i \in DOMAIN futures : DownloadFile(i)
    \/ Collect
    \/ ReturnAlbum

Spec == Init /\ [][Next]_vars

\* ------------------------------------------------- safe_request on its own
Idle ==
    /\ album_url = <<>>
    /\ pc = "idle"
    /\ album_info = NoAlbum
    /\ dirs = {}
    /\ success_count = 0
    /\ collected = 0
    /\ net = 0
    /\ result = None

InitFetch ==
    /\ mode = "fetch"
    /\ \E rc \in RetryCounts, rd \in RetryDelays :
          config = [DEFAULT_CONFIG EXCEPT !.retry_attempts = rc, !.retry_delay = rd]
    /\ req \in {album_page_request(config), detail_page_request,
                file_request}
    /\ resolver = NoResolver
    /\ parser = NoParser
    /\ futures = <<>>
    /\ disk = NoDisk
    /\ Idle

\* one iteration of the loop of safe_request
SafeRequestAttempt ==
    /\ mode = "fetch"
    /\ req.st = "run"
    /\ \E o \in GetOutcomes : req' = safe_request(req, o)
    /\ UNCHANGED <<mode, parser, config, album_url, pc, resolver, album_info, dirs,
                   futures, disk, success_count, collected, net, result>>

NextFetch == SafeRequestAttempt

SpecFetch == InitFetch /\ [][NextFetch]_vars

\* ------------------------------------- get_track_download_url on its own
InitResolve ==
    /\ mode = "resolve"
    /\ \E P \in Prefs : config = [DEFAULT_CONFIG EXCEPT !.format_preference = P]
    /\ req = NoRequest
    /\ resolver = [NoResolver EXCEPT !.st = "call"]
    /\ parser = NoParser
    /\ futures = <<>>
    /\ disk = NoDisk
    /\ Idle

\* the whole call get_track_download_url(track_url, config['format_preference'])
Resolve ==
    /\ mode = "resolve"
    /\ resolver.st = "call"
    /\ \E fetched \in detail_page_runs,
          page \in Pages, probe \in GetOutcomes :
          resolver' = [st |-> "return", fetched |-> fetched.st, page |-> page,
                       probe |-> probe,
                       ret |-> get_track_download_url(
                                   fetched, page, config.format_preference, probe)]
    /\ UNCHANGED <<mode, parser, config, album_url, pc, req, album_info, dirs, futures,
                   disk, success_count, collected, net, result>>

NextResolve == Resolve

SpecResolve == InitResolve /\ [][NextResolve]_vars

\* ------------------------------------------------ download_file on its own
FilePath == [number |-> 1, name |-> "a", ext |-> "flac"]

InitFile ==
    /\ mode = "file"
    /\ \E rc \in RetryCounts :
          config = [DEFAULT_CONFIG EXCEPT !.retry_attempts = rc]
    /\ req = NoRequest
    /\ resolver = NoResolver
    /\ parser = NoParser
    /\ \E size \in ShownSizes :
          futures = <<download_file_call(
                        [NoTask EXCEPT !.track_number = 1, !.name = "a"],
                        FilePath, size, config.retry_attempts,
                        config.retry_delay)>>
    /\ disk \in {NoDisk} \cup {[q \in {FilePath} |-> n] : n \in ByteCounts}
    /\ Idle

\* download_file, lines 283-293
DownloadFileBegin(i) ==
    /\ mode = "file"
    /\ futures[i].st = "check"
    /\ \E x \in BeginSteps(futures[i], disk) :
          futures' = [futures EXCEPT ![i] = x[1]] /\ disk' = x[2]
    /\ UNCHANGED <<mode, parser, config, album_url, pc, req, resolver, album_info, dirs,
                   success_count, collected, net, result>>

\* download_file, line 297
DownloadFileOpen(i) ==
    /\ mode = "file"
    /\ futures[i].st = "open"
    /\ \E x \in OpenSteps(futures[i], disk) :
          futures' = [futures EXCEPT ![i] = x[1]] /\ disk' = x[2]
    /\ UNCHANGED <<mode, parser, config, album_url, pc, req, resolver, album_info, dirs,
                   success_count, collected, net, result>>

\* download_file, lines 301-335
DownloadFileStream(i) ==
    /\ mode = "file"
    /\ futures[i].st = "stream"
    /\ \E x \in StreamSteps(futures[i], disk) :
          futures' = [futures EXCEPT ![i] = x[1]] /\ disk' = x[2]
    /\ UNCHANGED <<mode, parser, config, album_url, pc, req, resolver, album_info, dirs,
                   success_count, collected, net, result>>

NextFile ==
    \/ \E i \in DOMAIN futures : DownloadFileBegin(i)
    \/ \E i \in DOMAIN futures : DownloadFileOpen(i)
    \/ \E i \in DOMAIN futures : DownloadFileStream(i)

SpecFile == InitFile /\ [][NextFile]_vars

\* ----------------------------------------------- get_album_info on its own
InitCatalog ==
    /\ mode = "catalog"
    /\ config = [DEFAULT_CONFIG EXCEPT !.retry_attempts = MaxRetry]
    /\ req = NoRequest
    /\ resolver = NoResolver
    /\ \E page \in CatalogPages :
          parser = [NoParser EXCEPT !.st = "call", !.page = page]
    /\ futures = <<>>
    /\ disk = NoDisk
    /\ Idle

\* the whole call get_album_info(url, config) on the page the site serves
ParseAlbum ==
    /\ mode = "catalog"
    /\ parser.st = "call"
    /\ \E fetched \in safe_request_runs(album_page_request(config)) :
          parser' = [parser EXCEPT !.st = "return", !.fetched = fetched.st,
                                   !.ret = get_album_info(fetched, parser.page)]
    /\ UNCHANGED <<mode, config, album_url, pc, req, resolver, album_info, dirs,
                   futures, disk, success_count, collected, net, result>>

NextCatalog == ParseAlbum

SpecCatalog == InitCatalog /\ [][NextCatalog]_vars

\* =================================================================== claims

\* the URL shape the album page must have, as the specification states it
ValidAlbumUrl(url) ==
    /\ \E i \in DOMAIN url : url[i] # " "
    /\ \E i \in DOMAIN url : url[i] = AlbumPath

\* the names of the tasks that ended with success, and with failure
Succeeded == {i \in DOMAIN futures : futures[i].st = "done" /\ futures[i].ret = "True"}
Failed == {i \in DOMAIN futures : futures[i].st = "done" /\ futures[i].ret # "True"}

\* C1: download_album returns True exactly when the URL is valid, the catalog
\* has N >= 1 tracks and all N tasks returned success; when only M < N
\* succeeded it returns False, and the file of every task that succeeded is
\* on the disk, then and at every moment before.
C1_AllOrNothing ==
    /\ \A i \in Succeeded : Exists(disk, futures[i].file_path)
    /\ pc = "done" =>
          /\ result = "True" <=>
                /\ ValidAlbumUrl(album_url)
                /\ Len(album_info.tracks) >= 1
                /\ Len(futures) = Len(album_info.tracks)
                /\ Succeeded = DOMAIN futures
          /\ (futures # <<>> /\ Cardinality(Succeeded) < Len(album_info.tracks))
                => result = "False"

\* an album of two tracks ended with one file written and one track failed
C1_Witness ==
    /\ pc = "done"
    /\ result = "False"
    /\ Cardinality(Succeeded) = 1
    /\ Cardinality(Failed) = 1
    /\ \A i \in Succeeded : Exists(disk, futures[i].file_path)

\* the skip condition of the specification: a file is at the path, the
\* expected size is known, and the sizes differ by less than 0.1 MB
\* (sizes in bytes against hundredths of a MB: 1 MB = 1048576 bytes)
SkipCondition(bytes, expected) ==
    /\ bytes >= 0
    /\ expected # 0
    /\ 100 * bytes < 1048576 * (expected + 10)
    /\ 100 * bytes > 1048576 * (expected - 10)

\* C2: a True result of download_file means the file met the skip condition
\* when the call started, or the last transfer wrote exactly the advertised
\* number of bytes, or the server advertised no length.
C2_SuccessMeansComplete ==
    \A i \in DOMAIN futures :
        (futures[i].st = "done" /\ futures[i].ret = "True") =>
            \/ SkipCondition(futures[i].entry_size, futures[i].expected_size)
            \/ /\ futures[i].how = "transfer"
               /\ \/ futures[i].total_size = 0
                  \/ futures[i].downloaded = futures[i].total_size

\* the positions of P whose format has a labelled link with an href
LabelledAt(page, P) ==
    {k \in DOMAIN P :
        \E i \in DOMAIN page.links :
            /\ page.links[i].href # <<None>>
            /\ \/ P[k] = "flac" /\ page.links[i].text = "FLAC"
               \/ P[k] = "mp3" /\ page.links[i].text = "MP3"
               \/ P[k] = "ogg" /\ page.links[i].text = "OGG"}

\* C3: when the detail page has a labelled link for some format of the
\* preference list, get_track_download_url returns a candidate of the
\* earliest such format of the list, taken from a link labelled with it.
C3_FormatPriority ==
    (resolver.st = "return" /\ resolver.fetched = "return") =>
        LET P == config.format_preference
            at == LabelledAt(resolver.page, P)
        IN at # {} =>
              \E k \in at :
                  /\ \A j \in at : k <= j
                  /\ resolver.ret.format = P[k]
                  /\ \E i \in DOMAIN resolver.page.links :
                        /\ resolver.page.links[i].text = Upper(P[k])
                        /\ resolver.page.links[i].size = resolver.ret.size

\* preference [flac, mp3], only an MP3 link on the page: mp3 is returned
C3_Witness ==
    /\ resolver.st = "return"
    /\ resolver.fetched = "return"
    /\ config.format_preference = <<"flac", "mp3">>
    /\ LabelledAt(resolver.page, config.format_preference) = {2}
    /\ resolver.ret.format = "mp3"

\* C4: download_file skips exactly when the skip condition holds as the
\* call starts: then it issues no GET, opens no file, leaves the file as it
\* was and returns True; otherwise it attempts a transfer.
C4_SkipExactly ==
    \A i \in DOMAIN futures :
        futures[i].st = "done" =>
            IF SkipCondition(futures[i].entry_size, futures[i].expected_size)
            THEN /\ futures[i].ret = "True"
                 /\ futures[i].how = "skip"
                 /\ futures[i].gets = 0
                 /\ futures[i].transfers = 0
                 /\ disk[futures[i].file_path] = futures[i].entry_size
            ELSE futures[i].gets >= 1

\* 9.95 MB on disk, 10.0 MB expected: skipped and reported as success
C4_Witness ==
    \E i \in DOMAIN futures :
        /\ futures[i].st = "done"
        /\ futures[i].entry_size = 10433331
        /\ futures[i].expected_size = 1000
        /\ futures[i].ret = "True"
        /\ futures[i].gets = 0

GetsOf(log) == {i \in DOMAIN log : log[i].e = "GET"}
SleepsOf(log) == {i \in DOMAIN log : log[i].e = "sleep"}

\* C5: safe_request returns on the first successful GET and issues none
\* after it; a sleep of retry_delay comes only between two GETs; and when
\* every GET failed with a transport error the call made retry_count GETs
\* and retry_count - 1 sleeps and raised the error of the last GET.
C5_RetryThenRaise ==
    LET log == req.log IN
    /\ \A i \in GetsOf(log) :
          log[i].o = "ok" => (i = Len(log) /\ req.st = "return")
    /\ req.st = "return" => (log # <<>> /\ log[Len(log)] = GetEvent("ok"))
    /\ \A i \in SleepsOf(log) :
          /\ log[i].d = req.retry_delay
          /\ i - 1 \in GetsOf(log)
          /\ req.st = "run" \/ i + 1 \in GetsOf(log)
    /\ (req.st = "raise" /\ \A i \in GetsOf(log) : log[i].o = "URLError") =>
          /\ Cardinality(GetsOf(log)) = req.retry_count
          /\ Cardinality(SleepsOf(log)) = req.retry_count - 1
          /\ req.err = "URLError"
          /\ req.errAt = Len(log)
          /\ Len(log) \in GetsOf(log)

\* every attempt of a call with more than one attempt failed on the transport
C5_Witness ==
    /\ req.st = "raise"
    /\ req.retry_count >= 2
    /\ \A i \in GetsOf(req.log) : req.log[i].o = "URLError"
    /\ Cardinality(GetsOf(req.log)) = req.retry_count

\* C6: a GET that fails with an HTTP error status is not retried: nothing
\* follows it, no sleep and no GET, and the call raises that error.
C6_NoRetryOnHttpStatus ==
    \A i \in GetsOf(req.log) :
        req.log[i].o = "HTTPError" =>
            /\ i = 1
            /\ i = Len(req.log)
            /\ req.st = "raise"
            /\ req.err = "HTTPError"

\* C7: the track number of a task is its 1-based position in the catalog,
\* whatever the other tasks have done, and the file name carries it exactly
\* when include_track_number is set.
C7_TrackNumbers ==
    \A i \in DOMAIN futures :
        /\ futures[i].track_number = i
        /\ futures[i].name = album_info.tracks[i].name
        /\ futures[i].file_path # NoPath =>
              /\ futures[i].file_path.name = album_info.tracks[i].name
              /\ futures[i].file_path.number =
                    IF config.include_track_number THEN i ELSE 0

\* the second track has finished, with its number in the path, before the first
C7_Witness ==
    /\ Len(futures) = 2
    /\ futures[1].st \notin {"queued", "done"}
    /\ futures[2].st = "done"
    /\ config.include_track_number
    /\ futures[2].file_path.number = 2

\* C8: with a URL that is not an album URL download_album returns False
\* at once: no request, no directory, no task; and a request is only ever
\* made for a valid URL.
C8_InvalidUrlNoEffect ==
    /\ ~ValidAlbumUrl(album_url) =>
          /\ pc \in {"validate", "done"}
          /\ pc = "done" => result = "False"
          /\ net = 0
          /\ "album" \notin dirs
          /\ futures = <<>>
          /\ album_info = NoAlbum
    /\ net > 0 => ValidAlbumUrl(album_url)

\* download_album has returned for a URL of another site
C8_Witness ==
    /\ pc = "done"
    /\ album_url = <<"https:", "//other.site/album/">>
    /\ result = "False"

\* C9: at most max_threads tasks are running, and the tasks are the tracks
\* of the catalog, one each, in catalog order.
C9_BoundedPool ==
    /\ Cardinality(Running) <= config.max_threads
    /\ Len(futures) <= Len(album_info.tracks)
    /\ \A i \in DOMAIN futures : futures[i].name = album_info.tracks[i].name
    /\ pc = "submit" => Len(futures) < Len(album_info.tracks)
    /\ (pc = "collect" \/ (pc = "done" /\ futures # <<>>))
          => Len(futures) = Len(album_info.tracks)
    /\ \A i \in DOMAIN futures : \A j \in DOMAIN futures :
          (i < j /\ futures[j].st # "queued") => futures[i].st # "queued"

\* the pool is full and a task waits
C9_Witness ==
    /\ Cardinality(Running) = config.max_threads
    /\ Queued # {}

\* C10: a task that fails ends with the outcome False and nothing else
\* happens: the other tasks end with their own outcome, and download_album
\* returns False instead of raising.
C10_FailureContained ==
    /\ \A i \in DOMAIN futures :
          futures[i].st = "done" => futures[i].ret \in {"True", "False"}
    /\ (pc = "done" /\ futures # <<>>) =>
          /\ result \in {"True", "False"}
          /\ \A i \in DOMAIN futures : futures[i].st = "done"
          /\ Failed # {} => result = "False"
    /\ (Failed # {} /\ pc # "done") =>
          \A i \in DOMAIN futures :
              futures[i].st \in {"resolve", "check"} =>
                  \/ ENABLED ResolveTrack(i)
                  \/ /\ futures[i].st = "check"
                     /\ download_file({<<futures[i], disk>>}) # {}

\* the first track failed, the second one succeeded after it, and the
\* album returned False
C10_Witness ==
    /\ pc = "done"
    /\ result = "False"
    /\ Len(futures) = 2
    /\ futures[1].ret = "False"
    /\ futures[2].ret = "True"

\* C11: a download_file call starts at most retry_count attempts, whatever
\* mixture of size mismatches and exceptions made them fail; it sleeps once
\* after each failed attempt but the last; and when the last attempt fails
\* it returns False, it does not raise.
C11_SharedAttemptBudget ==
    \A i \in DOMAIN futures :
        LET t == futures[i] IN
        t.st # "queued" =>
            /\ t.attempt < t.retry_count
            /\ t.transfers <= t.attempt + 1
            /\ Len(t.fails) <= t.retry_count
            /\ t.st = "done" => t.ret \in {"True", "False"}
            /\ IF t.st = "done" /\ t.ret # "True"
               THEN /\ Len(t.fails) = t.retry_count
                    /\ t.attempt = t.retry_count - 1
                    /\ t.sleeps = t.retry_count - 1
               ELSE /\ Len(t.fails) = t.attempt
                    /\ t.sleeps = t.attempt

\* one attempt was cut at 4 MB of 10 MB, the next one raised, and the call
\* returned False after these two
C11_Witness ==
    \E i \in DOMAIN futures :
        /\ futures[i].st = "done"
        /\ futures[i].ret = "False"
        /\ futures[i].retry_count = 2
        /\ futures[i].fails = <<"mismatch", "except">>
        /\ futures[i].sleeps = 1

\* C12: two tasks of an album that are running at the same time never have
\* the same destination path, whatever the catalog and the configuration.
C12_DistinctPaths ==
    \A i \in Running : \A j \in Running :
        (i # j /\ futures[i].file_path # NoPath /\ futures[j].file_path # NoPath)
            => futures[i].file_path # futures[j].file_path

\* C13: download_file does not retry what safe_request has given up on:
\* once a safe_request call of the download has exhausted its attempts the
\* download ends with False, and a download issues no more GETs than the
\* retry budget (the larger of its own retry_count and safe_request's).
C13_SingleRetryLayer ==
    \A i \in DOMAIN futures :
        LET t == futures[i] IN
        t.st # "queued" =>
            /\ t.exhausted > 0 => (t.st = "done" /\ t.ret = "False")
            /\ t.gets <= Max(t.retry_count, DefaultRetryCount)

\* C14: at each of the three call sites a connection that fails every time
\* surfaces its error after exactly config['retry_attempts'] GETs, with
\* sleeps of config['retry_delay'] between them.
C14_ConfiguredBudgetEverywhere ==
    (req.st = "raise" /\ \A i \in GetsOf(req.log) : req.log[i].o = "URLError") =>
        /\ Cardinality(GetsOf(req.log)) = config.retry_attempts
        /\ \A i \in SleepsOf(req.log) : req.log[i].d = config.retry_delay

\* C15: a task's result is counted only once the task has finished, the
\* count is the number of counted tasks that succeeded, and download_album
\* returns only when every submitted task has finished and been counted.
C15_ResultAfterAllTasks ==
    /\ collected <= Len(futures)
    /\ \A i \in 1..collected : futures[i].st = "done"
    /\ success_count = Cardinality({i \in 1..collected : futures[i].ret = "True"})
    /\ (pc = "done" /\ futures # <<>>) =>
          /\ \A i \in DOMAIN futures : futures[i].st = "done"
          /\ collected = Len(futures)
          /\ success_count = Cardinality(Succeeded)

\* the first result is counted and the main thread waits for the second
\* task, which is still running
C15_Witness ==
    /\ pc = "collect"
    /\ collected = 1
    /\ Len(futures) = 2
    /\ futures[2].st \in {"resolve", "check"}

\* C16: the <audio> tier is used only when no link is labelled with a
\* format of the list and the page has an <audio> source.  With flac in the
\* list and a successful probe the result is flac at the source with .mp3
\* replaced by .flac; with a failed probe, whatever the failure, the result
\* is mp3 at the source; the size is 0 (unknown) in both cases.
C16_AudioFallback ==
    (resolver.st = "return" /\ resolver.fetched = "return") =>
        LET P == config.format_preference
            page == resolver.page
            r == resolver.ret
            flac == \E k \in DOMAIN P : P[k] = "flac"
        IN IF LabelledAt(page, P) # {}
           THEN r.url[Len(r.url)] \notin {".mp3", ".flac"}
           ELSE IF page.audio = <<None>> THEN r = NoTrackInfo
           ELSE /\ page.audio = <<"a", " ", ".mp3">>
                /\ r.size = 0
                /\ r.title # None
                /\ IF flac /\ resolver.probe = "ok"
                   THEN /\ r.format = "flac"
                        /\ r.url = <<"a", "%", "2", "0", ".flac">>
                   ELSE /\ r.format = "mp3"
                        /\ r.url = <<"a", "%", "2", "0", ".mp3">>

\* flac is preferred, the page has only an <audio> source and the probe of
\* the .flac URL was answered with an HTTP error: the mp3 source is returned
C16_Witness ==
    /\ resolver.st = "return"
    /\ resolver.fetched = "return"
    /\ config.format_preference = <<"flac">>
    /\ LabelledAt(resolver.page, config.format_preference) = {}
    /\ resolver.page.audio # <<None>>
    /\ resolver.probe = "HTTPError"
    /\ resolver.ret.format = "mp3"

\* C17: download_album ends in Completed or Failed only, that is, whenever
\* it has ended it has returned True or False.
C17_EndsCompletedOrFailed ==
    pc = "done" => result \in {"True", "False"}

\* C18: when get_album_info returns nothing (the fetch gave up, or the page
\* has no song list) or an album without tracks, download_album returns
\* False there and then: that step creates no directory and submits no
\* task, the catalog was fetched once, and nothing happens after the return.
C18_CatalogFailureTerminal ==
    [][/\ pc = "fetch" =>
            IF ~album_info'.found \/ album_info'.tracks = <<>>
            THEN /\ pc' = "done"
                 /\ result' = "False"
                 /\ dirs' = dirs
                 /\ futures' = <<>>
                 /\ net' = 1
            ELSE pc' = "mkdir"
       /\ pc # "done"]_vars

\* the song list was there but no row of it had a link: False is returned
\* with nothing created
C18_Witness ==
    /\ pc = "done"
    /\ album_info.found
    /\ album_info.tracks = <<>>
    /\ result = "False"
    /\ net = 1
    /\ "album" \notin dirs
    /\ futures = <<>>

\* C19: the URL of every result is normalised: decoding it, encoding and
\* decoding again gives the decoded URL back, normalising it again changes
\* nothing, and it is single-encoded: the double-encoded href a%2520a of a
\* labelled link is returned as a%20a.
C19_NormalizeRoundTrip ==
    (resolver.st = "return" /\ resolver.ret # NoTrackInfo) =>
        LET r == resolver.ret.url IN
        /\ unquote(quote(unquote(r))) = unquote(r)
        /\ quote(unquote(r)) = r
        /\ LabelledAt(resolver.page, config.format_preference) # {}
              => r = <<"a", "%", "2", "0", "a">>

\* the rows of the song list whose clickable cell has a link with an href
LinkedRows(rows) == {i \in DOMAIN rows : rows[i].clickable /\ rows[i].href # None}

\* C20: the tracks get_album_info returns are the rows whose clickable cell
\* has a link with an href, each once and in row order: the k-th track has
\* the name of the k-th such row and the site's base URL followed by its
\* href; the other rows are left out and the call still returns the album.
C20_TracksAreLinkedRows ==
    (parser.st = "return" /\ parser.fetched = "return" /\ parser.page.songlist) =>
        LET rows == parser.page.rows
            tracks == parser.ret.tracks
        IN /\ parser.ret.found
           /\ Len(tracks) = Cardinality(LinkedRows(rows))
           /\ \A i \in LinkedRows(rows) :
                 LET k == Cardinality({j \in LinkedRows(rows) : j <= i}) IN
                 /\ tracks[k].name = rows[i].name
                 /\ tracks[k].url = <<"https://downloads.khinsider.com", rows[i].href>>

\* a row whose clickable cell has no link, then a row with one: one track,
\* that of the second row
C20_Witness ==
    /\ parser.st = "return"
    /\ parser.fetched = "return"
    /\ parser.page.songlist
    /\ Len(parser.page.rows) = 2
    /\ parser.page.rows[1] = [clickable |-> TRUE, href |-> None, name |-> "a"]
    /\ parser.page.rows[2] = [clickable |-> TRUE, href |-> "/track", name |-> "b"]
    /\ Len(parser.ret.tracks) = 1
    /\ parser.ret.tracks[1].name = "b"

\* the formats of a preference list
FormatsOf(P) == {P[k] : k \in DOMAIN P}

\* C21 as stated: the format of every result of get_track_download_url is
\* one of the formats of the preference list it was called with.
C21_FormatInPreference ==
    (resolver.st = "return" /\ resolver.ret # NoTrackInfo) =>
        resolver.ret.format \in FormatsOf(config.format_preference)

\* C21, amended: the format of every result is one of the formats of the
\* preference list when the result comes from a labelled link or from the
\* flac probe, and it is mp3, listed or not, when the result is the source
\* of the <audio> element.
C21_FormatInPreferenceOrAudioMp3 ==
    (resolver.st = "return" /\ resolver.ret # NoTrackInfo) =>
        LET P == config.format_preference
            r == resolver.ret
        IN \/ r.format \in FormatsOf(P)
           \/ /\ r.format = "mp3"
              /\ LabelledAt(resolver.page, P) = {}
              /\ resolver.page.audio # <<None>>
              /\ r.url = <<"a", "%", "2", "0", ".mp3">>

\* ogg then flac is asked for, the page has only an <audio> source and the
\* probe of the .flac URL could not connect: mp3 is returned
C21_Witness ==
    /\ resolver.st = "return"
    /\ config.format_preference = <<"ogg", "flac">>
    /\ resolver.page.links = <<>>
    /\ resolver.page.audio # <<None>>
    /\ resolver.probe = "URLError"
    /\ resolver.ret.format = "mp3"

====
